---- MODULE Spec2Model ----
(***************************************************************************)
(* The dance area of the town: the server-side DanceArea                   *)
(* (townService/src/town/DanceArea.ts) and the client-side                 *)
(* DanceAreaController (frontend/src/classes/DanceAreaController.ts).      *)
(*                                                                         *)
(* Spec       explores the server area: construction, add, remove,         *)
(*            updateModel.                                                 *)
(* ClientSpec explores the client controller: construction, the setters    *)
(*            and updateFrom.                                              *)
(* Each specification holds the other component at its initial state.      *)
(***************************************************************************)
EXTENDS Integers, Sequences, FiniteSets

VARIABLES
    \* ---- server: one DanceArea instance --------------------------------
    id,             \* InteractableArea._id
    occupants,      \* InteractableArea._occupants, the players' ids in join order
    difficulty,     \* DanceArea._difficulty
    correct,        \* DanceArea._correct
    userClicks,     \* DanceArea._userClicks
    leaderboard,    \* DanceArea._leaderboard
    currentScore,   \* DanceArea._currentScore
    timer,          \* DanceArea._timer
    boundingBox,    \* InteractableArea._x, _y, _width, _height
    thrown,         \* the error the creation of the area threw, or NoError
    playerLocation, \* player |-> player.location.interactableID
    townEmitter,    \* the events the most recent server call sent through _townEmitter
    lastCall,       \* the most recent server call and its argument
    \* ---- client: one DanceAreaController instance ----------------------
    model,          \* DanceAreaController._model
    emitted,        \* the events the most recent client call emitted to listeners
    clientCall      \* the most recent client call, its argument and the model before it

serverVars == <<id, occupants, difficulty, correct, userClicks, leaderboard,
                currentScore, timer, boundingBox, thrown, playerLocation,
                townEmitter, lastCall>>
\* what a call of a method of the area leaves alone: how it was created
creation == <<boundingBox, thrown>>
clientVars == <<model, emitted, clientCall>>
vars == <<id, occupants, difficulty, correct, userClicks, leaderboard,
          currentScore, timer, boundingBox, thrown, playerLocation, townEmitter,
          lastCall, model, emitted, clientCall>>

-----------------------------------------------------------------------------
(* Bounds of the exploration *)

\* number of players that may walk in and out of the area
MaxPlayers == 2
\* number of distinct outcomes of the Math.random() stream that are explored
NumSeeds == 2
\* numerators of the values Math.random() may return: k / RandomResolution
RandomResolution == 100

-----------------------------------------------------------------------------
(* Program constants *)

ARROWLENGTH == 20
PlaceholderLength == 10
DurationRange == 10

directions == <<"L", "R", "U", "D">>
\* the four glyphs of Display, named by the arrow they draw
displays == <<"leftwards", "rightwards", "upwards", "downwards">>

\* the value of an absent optional (player.location.interactableID = undefined)
Undefined == "undefined"

\* an unset slot of `new Array(10)`
Hole == [hole |-> TRUE]

\* no error was thrown
NoError == "none"

-----------------------------------------------------------------------------
(* The values that reach the area from outside *)

Players == 1..MaxPlayers
Seeds == 0..(NumSeeds - 1)
Ids == {"areaId", "won't be used"}
Difficulties == {10, 15}
Timers == {200, 300}

NoScore == [userId |-> "", score |-> 0]
Scores == {NoScore, [userId |-> "won't be used", score |-> 100]}

newCorrect == [display |-> "leftwards", direction |-> "L", duration |-> 1]
newUserClicks == [display |-> "rightwards", direction |-> "R", duration |-> 2]
newLeaderboard == [userId |-> "won't be used", score |-> 100]

Repeat(x, n) == [i \in 1..n |-> x]
CorrectSeqs == {<<>>, <<newCorrect>>}
UserClickSeqs == {<<>>, <<newUserClicks>>}
Leaderboards == {<<>>, <<newLeaderboard>>}

\* DanceAreaModel, the wire form
Models == [id : Ids, difficulty : Difficulties, correct : CorrectSeqs,
           userClicks : UserClickSeqs, leaderboard : Leaderboards,
           currentScore : Scores, timer : Timers]

Without(m, field) == [k \in (DOMAIN m) \ {field} |-> m[k]]

\* the coordinates a caller hands to the constructor
testAreaBox == [x |-> 100, y |-> 100, width |-> 100, height |-> 100]

\* ITiledMapObject: the rectangles of the town map, their optional width and
\* height present, 0 or missing
FullMapObjects == [name : {"name"}, x : {30}, y : {20}, width : {0, 10}, height : {0, 20}]
MapObjects ==
    FullMapObjects
    \cup {Without(o, "width") : o \in FullMapObjects}
    \cup {Without(o, "height") : o \in FullMapObjects}
    \cup {Without(Without(o, "width"), "height") : o \in FullMapObjects}

\* what a caller may hand to the constructor: a full model, a model whose
\* difficulty is 0 or missing, or a model whose leaderboard is missing
ConstructorModels ==
    Models
    \cup {[m EXCEPT !.difficulty = 0] : m \in Models}
    \cup {Without(m, "difficulty") : m \in Models}
    \cup {Without(m, "leaderboard") : m \in Models}

-----------------------------------------------------------------------------
(* Server: DanceArea *)

\* the k-th value of the Math.random() stream, as a numerator over
\* RandomResolution
MathRandom(seed, k) == ((seed + 1) * 37 * (k + 1) + 11 * k * k + 53 * seed) % RandomResolution

\* Math.floor(Math.random() * n) for the k-th value of the stream
RandomIndex(seed, k, n) == (MathRandom(seed, k) * n) \div RandomResolution

\* the loop body without the + 1 of the duration
RandomArrow_zeroBased(seed, i) ==
    [display   |-> displays[RandomIndex(seed, 3 * i + 1, Len(displays)) + 1],
     direction |-> directions[RandomIndex(seed, 3 * i, Len(directions)) + 1],
     duration  |-> RandomIndex(seed, 3 * i + 2, DurationRange)]

\* one iteration of the constructor's loop: three draws, direction first
RandomArrow(seed, i) ==
    [display   |-> displays[RandomIndex(seed, 3 * i + 1, Len(displays)) + 1],
     direction |-> directions[RandomIndex(seed, 3 * i, Len(directions)) + 1],
     duration  |-> RandomIndex(seed, 3 * i + 2, DurationRange) + 1]

\* the loop run with i <= ARROWLENGTH
GenerateCorrect_oneMore(seed) == [k \in 1..(ARROWLENGTH + 1) |-> RandomArrow(seed, k - 1)]

\* the loop for (let i = 0; i < ARROWLENGTH; i++) push(...)
GenerateCorrect(seed) == [k \in 1..ARROWLENGTH |-> RandomArrow(seed, k - 1)]

\* difficulty ?? 15: only a missing difficulty gets the default
DifficultyOrDefault_nullish(m) ==
    IF "difficulty" \in DOMAIN m THEN m.difficulty ELSE 15

\* difficulty || 15: a missing difficulty and the number 0 are falsy
DifficultyOrDefault(m) ==
    IF "difficulty" \in DOMAIN m /\ m.difficulty # 0 THEN m.difficulty ELSE 15

\* leaderboard || new Array(10): only a missing leaderboard is falsy, an
\* array (the empty one too) is truthy
LeaderboardOrDefault(m) ==
    IF "leaderboard" \in DOMAIN m THEN m.leaderboard ELSE Repeat(Hole, PlaceholderLength)

\* the constructor taking the timer of its model
DanceArea_takesTimer(m, seed) ==
    LET d == DifficultyOrDefault(m)
    IN  [id           |-> m.id,
         difficulty   |-> d,
         leaderboard  |-> LeaderboardOrDefault(m),
         correct      |-> GenerateCorrect(seed),
         userClicks   |-> <<>>,
         currentScore |-> m.currentScore,
         timer        |-> m.timer]

\* the fields of a freshly constructed DanceArea
DanceArea(m, seed) ==
    LET d == DifficultyOrDefault(m)
    IN  [id           |-> m.id,
         difficulty   |-> d,
         leaderboard  |-> LeaderboardOrDefault(m),
         correct      |-> GenerateCorrect(seed),
         userClicks   |-> <<>>,
         currentScore |-> m.currentScore,
         timer        |-> ARROWLENGTH * d]

\* toModel that reports no clicks
toModel_omitsClicks ==
    [id           |-> id,
     difficulty   |-> difficulty,
     correct      |-> correct,
     userClicks   |-> <<>>,
     leaderboard  |-> leaderboard,
     currentScore |-> currentScore,
     timer        |-> timer]

\* toModel that derives the timer from the difficulty
toModel_staleTimer ==
    [id           |-> id,
     difficulty   |-> difficulty,
     correct      |-> correct,
     userClicks   |-> userClicks,
     leaderboard  |-> leaderboard,
     currentScore |-> currentScore,
     timer        |-> ARROWLENGTH * difficulty]

toModel ==
    [id           |-> id,
     difficulty   |-> difficulty,
     correct      |-> correct,
     userClicks   |-> userClicks,
     leaderboard  |-> leaderboard,
     currentScore |-> currentScore,
     timer        |-> timer]

\* townEmitter.emit('playerMoved', player.toPlayerModel())
PlayerMoved(player, where) ==
    [type |-> "playerMoved", player |-> player, interactableID |-> where]

\* _emitAreaChanged(): townEmitter.emit('interactableUpdate', this.toModel())
AreaChanged(areaModel) ==
    [type |-> "interactableUpdate", model |-> areaModel]

\* InteractableArea.remove's bookkeeping on the occupant list
Filter(occ, player) == SelectSeq(occ, LAMBDA q : q # player)

InSeq(s, x) == \E i \in 1..Len(s) : s[i] = x

\* the area that new DanceArea(m, coordinates, townEmitter) leaves
Constructed(m, coordinates, seed) ==
    LET a == DanceArea(m, seed)
    IN  /\ id = a.id
        /\ boundingBox = coordinates
        /\ occupants = <<>>
        /\ difficulty = a.difficulty
        /\ correct = a.correct
        /\ userClicks = a.userClicks
        /\ leaderboard = a.leaderboard
        /\ currentScore = a.currentScore
        /\ timer = a.timer
        /\ thrown = NoError

\* no area: what the variables hold when the creation threw
NoArea ==
    /\ id = Undefined
    /\ boundingBox = [x |-> 0, y |-> 0, width |-> 0, height |-> 0]
    /\ occupants = <<>>
    /\ difficulty = 0
    /\ correct = <<>>
    /\ userClicks = <<>>
    /\ leaderboard = <<>>
    /\ currentScore = NoScore
    /\ timer = 0

\* x === undefined in the place of !x
Missing_undefinedOnly(mapObject, field) == field \notin DOMAIN mapObject

\* !x for an optional number of the map object
Missing(mapObject, field) == field \notin DOMAIN mapObject \/ mapObject[field] = 0

fromMapObject(mapObject, seed) ==
    /\ IF Missing(mapObject, "width") \/ Missing(mapObject, "height")
       THEN /\ thrown = "missing width/height for map object"
            /\ NoArea
       ELSE Constructed([id           |-> mapObject.name,
                         difficulty   |-> 15,
                         correct      |-> <<>>,
                         userClicks   |-> <<>>,
                         leaderboard  |-> <<>>,
                         currentScore |-> [userId |-> "", score |-> 0],
                         timer        |-> ARROWLENGTH * 15],
                        [x      |-> mapObject.x,
                         y      |-> mapObject.y,
                         width  |-> mapObject.width,
                         height |-> mapObject.height],
                        seed)
    /\ lastCall = [op |-> "fromMapObject", mapObject |-> mapObject]

\* the area exists: its creation did not throw
created == thrown = NoError

\* the area after its creation, by the constructor or by the factory
ServerInit ==
    /\ \/ \E m \in ConstructorModels, seed \in Seeds :
            /\ Constructed(m, testAreaBox, seed)
            /\ lastCall = [op |-> "constructor", model |-> m]
       \/ \E mapObject \in MapObjects, seed \in Seeds :
            fromMapObject(mapObject, seed)
    /\ playerLocation = [p \in Players |-> Undefined]
    /\ townEmitter = <<>>

\* InteractableArea.add, which DanceArea inherits
add(player) ==
    /\ ~InSeq(occupants, player)
    /\ occupants' = Append(occupants, player)
    /\ playerLocation' = [playerLocation EXCEPT ![player] = id]
    /\ UNCHANGED <<id, difficulty, correct, userClicks, leaderboard, currentScore, timer>>
    /\ townEmitter' = <<PlayerMoved(player, id), AreaChanged(toModel)>>
    /\ lastCall' = [op |-> "add", player |-> player]

\* remove that broadcasts the area before it resets it
remove_emitsBeforeReset(player) ==
    /\ occupants' = Filter(occupants, player)
    /\ playerLocation' = [playerLocation EXCEPT ![player] = Undefined]
    /\ id' = id
    /\ IF Len(occupants') = 0
       THEN /\ difficulty' = 15
            /\ correct' = <<>>
            /\ userClicks' = <<>>
            /\ leaderboard' = leaderboard
            /\ currentScore' = [userId |-> "", score |-> 0]
            /\ timer' = ARROWLENGTH * difficulty'
       ELSE UNCHANGED <<difficulty, correct, userClicks, leaderboard, currentScore, timer>>
    /\ townEmitter' = <<PlayerMoved(player, Undefined), AreaChanged(toModel)>>
    /\ lastCall' = [op |-> "remove", player |-> player]

\* remove whose reset forgets the timer
remove_keepsTimer(player) ==
    /\ occupants' = Filter(occupants, player)
    /\ playerLocation' = [playerLocation EXCEPT ![player] = Undefined]
    /\ id' = id
    /\ IF Len(occupants') = 0
       THEN /\ difficulty' = 15
            /\ correct' = <<>>
            /\ userClicks' = <<>>
            /\ leaderboard' = leaderboard
            /\ currentScore' = [userId |-> "", score |-> 0]
            /\ timer' = timer
       ELSE UNCHANGED <<difficulty, correct, userClicks, leaderboard, currentScore, timer>>
    /\ townEmitter' = <<PlayerMoved(player, Undefined), AreaChanged(toModel')>>
    /\ lastCall' = [op |-> "remove", player |-> player]

\* remove whose reset clears the leaderboard with the other fields
remove_clearsLeaderboard(player) ==
    /\ occupants' = Filter(occupants, player)
    /\ playerLocation' = [playerLocation EXCEPT ![player] = Undefined]
    /\ id' = id
    /\ IF Len(occupants') = 0
       THEN /\ difficulty' = 15
            /\ correct' = <<>>
            /\ userClicks' = <<>>
            /\ leaderboard' = <<>>
            /\ currentScore' = [userId |-> "", score |-> 0]
            /\ timer' = ARROWLENGTH * difficulty'
       ELSE UNCHANGED <<difficulty, correct, userClicks, leaderboard, currentScore, timer>>
    /\ townEmitter' = <<PlayerMoved(player, Undefined), AreaChanged(toModel')>>
    /\ lastCall' = [op |-> "remove", player |-> player]

\* remove that resets without looking at the occupants
remove_alwaysResets(player) ==
    /\ occupants' = Filter(occupants, player)
    /\ playerLocation' = [playerLocation EXCEPT ![player] = Undefined]
    /\ id' = id
    /\ difficulty' = 15
    /\ correct' = <<>>
    /\ userClicks' = <<>>
    /\ leaderboard' = leaderboard
    /\ currentScore' = [userId |-> "", score |-> 0]
    /\ timer' = ARROWLENGTH * difficulty'
    /\ townEmitter' = <<PlayerMoved(player, Undefined), AreaChanged(toModel')>>
    /\ lastCall' = [op |-> "remove", player |-> player]

remove(player) ==
    /\ occupants' = Filter(occupants, player)
    /\ playerLocation' = [playerLocation EXCEPT ![player] = Undefined]
    /\ id' = id
    /\ IF Len(occupants') = 0
       THEN /\ difficulty' = 15
            /\ correct' = <<>>
            /\ userClicks' = <<>>
            /\ leaderboard' = leaderboard
            /\ currentScore' = [userId |-> "", score |-> 0]
            /\ timer' = ARROWLENGTH * difficulty'
       ELSE UNCHANGED <<difficulty, correct, userClicks, leaderboard, currentScore, timer>>
    /\ townEmitter' = <<PlayerMoved(player, Undefined), AreaChanged(toModel')>>
    /\ lastCall' = [op |-> "remove", player |-> player]

\* updateModel that leaves the timer out
updateModel_skipsTimer(updatedModel) ==
    /\ difficulty' = updatedModel.difficulty
    /\ correct' = updatedModel.correct
    /\ userClicks' = updatedModel.userClicks
    /\ leaderboard' = updatedModel.leaderboard
    /\ currentScore' = updatedModel.currentScore
    /\ UNCHANGED <<timer, id, occupants, playerLocation>>
    /\ townEmitter' = <<>>
    /\ lastCall' = [op |-> "updateModel", model |-> updatedModel]

\* updateModel that takes the id of the incoming model too
updateModel_assignsId(updatedModel) ==
    /\ id' = updatedModel.id
    /\ difficulty' = updatedModel.difficulty
    /\ correct' = updatedModel.correct
    /\ userClicks' = updatedModel.userClicks
    /\ leaderboard' = updatedModel.leaderboard
    /\ currentScore' = updatedModel.currentScore
    /\ timer' = updatedModel.timer
    /\ UNCHANGED <<occupants, playerLocation>>
    /\ townEmitter' = <<>>
    /\ lastCall' = [op |-> "updateModel", model |-> updatedModel]

\* updateModel that broadcasts the area it has updated
updateModel_broadcasts(updatedModel) ==
    /\ difficulty' = updatedModel.difficulty
    /\ correct' = updatedModel.correct
    /\ userClicks' = updatedModel.userClicks
    /\ leaderboard' = updatedModel.leaderboard
    /\ currentScore' = updatedModel.currentScore
    /\ timer' = updatedModel.timer
    /\ UNCHANGED <<id, occupants, playerLocation>>
    /\ townEmitter' = <<AreaChanged(toModel')>>
    /\ lastCall' = [op |-> "updateModel", model |-> updatedModel]

updateModel(updatedModel) ==
    /\ difficulty' = updatedModel.difficulty
    /\ correct' = updatedModel.correct
    /\ userClicks' = updatedModel.userClicks
    /\ leaderboard' = updatedModel.leaderboard
    /\ currentScore' = updatedModel.currentScore
    /\ timer' = updatedModel.timer
    /\ UNCHANGED <<id, occupants, playerLocation>>
    /\ townEmitter' = <<>>
    /\ lastCall' = [op |-> "updateModel", model |-> updatedModel]

-----------------------------------------------------------------------------
(* Client: DanceAreaController *)

\* this.emit(kind, value)
Event(kind, value) == [type |-> kind, value |-> value]

\* the getters, on a controller whose _model is mdl
get_id(mdl) == mdl.id
get_defficulty(mdl) == mdl.difficulty
get_timer(mdl) == mdl.timer
get_currentScore(mdl) == mdl.currentScore
get_correct(mdl) == mdl.correct
get_userClicks(mdl) == mdl.userClicks
get_leaderboard(mdl) == mdl.leaderboard

\* the getters of the controller itself
defficulty == get_defficulty(model)
danceAreaModel == model

\* The setters, on a controller whose _model is mdl: the model the call leaves
\* and the events it emits.  A comparison of two object references is the
\* comparison of the values here: the only references the setters compare
\* are the ones the same getter returns twice.
\* the difficulty setter without its comparison
set_difficulty_unguarded(mdl, value) ==
    [model |-> [mdl EXCEPT !.difficulty = value],
     events |-> <<Event("difficultyChange", value)>>]

set_difficulty(mdl, value) ==
    IF mdl.difficulty # value
    THEN [model |-> [mdl EXCEPT !.difficulty = value],
          events |-> <<Event("difficultyChange", value)>>]
    ELSE [model |-> mdl, events |-> <<>>]

\* the timer setter without its comparison
set_timer_unguarded(mdl, value) ==
    [model |-> [mdl EXCEPT !.timer = value],
     events |-> <<Event("timerChange", value)>>]

set_timer(mdl, value) ==
    IF mdl.timer # value
    THEN [model |-> [mdl EXCEPT !.timer = value],
          events |-> <<Event("timerChange", value)>>]
    ELSE [model |-> mdl, events |-> <<>>]

set_currentScore(mdl, value) ==
    IF mdl.currentScore # get_currentScore(mdl)
    THEN [model |-> [mdl EXCEPT !.currentScore = value],
          events |-> <<Event("currentScoreChange", value)>>]
    ELSE [model |-> mdl, events |-> <<>>]

set_correct(mdl, value) ==
    IF mdl.correct # get_correct(mdl)
    THEN [model |-> [mdl EXCEPT !.correct = value],
          events |-> <<Event("correctChange", value)>>]
    ELSE [model |-> mdl, events |-> <<>>]

set_userClicks(mdl, value) ==
    IF mdl.userClicks # get_userClicks(mdl)
    THEN [model |-> [mdl EXCEPT !.userClicks = value],
          events |-> <<Event("userClicksChange", value)>>]
    ELSE [model |-> mdl, events |-> <<>>]

set_leaderboard(mdl, value) ==
    IF mdl.leaderboard # get_leaderboard(mdl)
    THEN [model |-> [mdl EXCEPT !.leaderboard = get_leaderboard(mdl)],
          events |-> <<Event("leaderboardChange", get_leaderboard(mdl))>>]
    ELSE [model |-> mdl, events |-> <<>>]

\* a call of one setter on the controller
Assign(field, after, value) ==
    /\ model' = after.model
    /\ emitted' = after.events
    /\ clientCall' = [op |-> "set", field |-> field, value |-> value]

SetDifficulty(value) == Assign("difficulty", set_difficulty(model, value), value)
SetTimer(value) == Assign("timer", set_timer(model, value), value)
SetCurrentScore(value) == Assign("currentScore", set_currentScore(model, value), value)
SetCorrect(value) == Assign("correct", set_correct(model, value), value)
SetUserClicks(value) == Assign("userClicks", set_userClicks(model, value), value)
SetLeaderboard(value) == Assign("leaderboard", set_leaderboard(model, value), value)

\* updateFrom that takes the incoming model as the new _model
updateFrom_replacesModel(updatedModel) ==
    LET first == set_difficulty(model, updatedModel.difficulty)
        second == set_timer(first.model, updatedModel.timer)
        third == set_currentScore(second.model, updatedModel.currentScore)
    IN  /\ model' = updatedModel
        /\ emitted' = first.events \o second.events \o third.events
        /\ clientCall' = [op |-> "updateFrom", model |-> updatedModel]

updateFrom(updatedModel) ==
    LET first == set_difficulty(model, updatedModel.difficulty)
        second == set_timer(first.model, updatedModel.timer)
        third == set_currentScore(second.model, updatedModel.currentScore)
    IN  /\ model' = third.model
        /\ emitted' = first.events \o second.events \o third.events
        /\ clientCall' = [op |-> "updateFrom", model |-> updatedModel]

\* constructor(danceAreaModel)
ClientInit ==
    /\ model \in Models
    /\ emitted = <<>>
    /\ clientCall = [op |-> "constructor", model |-> model]

-----------------------------------------------------------------------------
(* The specifications *)

\* the controller of Spec: constructed, never called
ClientIdle ==
    /\ model = [id |-> "areaId", difficulty |-> 15, correct |-> <<>>,
                userClicks |-> <<>>, leaderboard |-> <<>>,
                currentScore |-> NoScore, timer |-> 300]
    /\ emitted = <<>>
    /\ clientCall = [op |-> "constructor", model |-> model]

\* the area of ClientSpec: constructed, never called
ServerIdle ==
    /\ fromMapObject([name |-> "areaId", x |-> 30, y |-> 20, width |-> 10, height |-> 20], 0)
    /\ playerLocation = [p \in Players |-> Undefined]
    /\ townEmitter = <<>>

Init == ServerInit /\ ClientIdle

Next ==
    \/ \E player \in Players :
        created /\ add(player) /\ UNCHANGED creation /\ UNCHANGED clientVars
    \/ \E player \in Players :
        created /\ remove(player) /\ UNCHANGED creation /\ UNCHANGED clientVars
    \/ \E updatedModel \in Models :
        created /\ updateModel(updatedModel) /\ UNCHANGED creation /\ UNCHANGED clientVars

Spec == Init /\ [][Next]_vars

ClientNext ==
    \/ \E value \in Difficulties : SetDifficulty(value) /\ UNCHANGED serverVars
    \/ \E value \in Timers : SetTimer(value) /\ UNCHANGED serverVars
    \/ \E value \in Scores : SetCurrentScore(value) /\ UNCHANGED serverVars
    \/ \E value \in CorrectSeqs : SetCorrect(value) /\ UNCHANGED serverVars
    \/ \E value \in UserClickSeqs : SetUserClicks(value) /\ UNCHANGED serverVars
    \/ \E value \in Leaderboards : SetLeaderboard(value) /\ UNCHANGED serverVars
    \/ \E updatedModel \in Models : updateFrom(updatedModel) /\ UNCHANGED serverVars

ClientSpecInit == ClientInit /\ ServerIdle

ClientSpec == ClientSpecInit /\ [][ClientNext]_vars

-----------------------------------------------------------------------------
(* Properties of the server area, checked under Spec *)

\* the fields a reset gives their defaults, and the leaderboard
progress == <<difficulty, correct, userClicks, leaderboard, currentScore, timer>>

\* C1: a remove that leaves the area without occupants leaves difficulty 15,
\* correct and userClicks empty, the current score {userId: '', score: 0} and
\* the timer 300, whatever they were before.
C1_ResetOnLastLeave ==
    (lastCall.op = "remove" /\ Len(occupants) = 0)
        => /\ difficulty = 15
           /\ correct = <<>>
           /\ userClicks = <<>>
           /\ currentScore = [userId |-> "", score |-> 0]
           /\ timer = 300

C1_Witness ==
    /\ lastCall.op = "remove"
    /\ Len(occupants) = 0
    /\ playerLocation[lastCall.player] = Undefined
    /\ correct = <<>>
    /\ timer = 300

C3_UpdateModelSetsFields ==
    lastCall.op = "updateModel"
        => /\ difficulty = lastCall.model.difficulty
           /\ correct = lastCall.model.correct
           /\ userClicks = lastCall.model.userClicks
           /\ leaderboard = lastCall.model.leaderboard
           /\ currentScore = lastCall.model.currentScore
           /\ timer = lastCall.model.timer

C3_Witness ==
    /\ lastCall.op = "updateModel"
    /\ lastCall.model.id # id
    /\ Len(occupants) > 0
    /\ timer = 200
    /\ timer # ARROWLENGTH * difficulty

\* C4: no call changes the id of the area: the accessor and toModel() return
\* after every add, remove and updateModel the id they returned before it.
C4_IdImmutable == [][id' = id /\ toModel'.id = toModel.id]_vars

C4_Witness ==
    /\ lastCall.op = "updateModel"
    /\ lastCall.model.id # id
    /\ toModel.id = "areaId"

\* C8, as claimed: toModel() of a freshly constructed area, and the
\* interactableUpdate that the first add broadcasts, equal the model the area
\* was constructed from in all seven fields.
C8_ConstructedEqualsModel ==
    /\ []((lastCall.op = "constructor" /\ lastCall.model \in Models)
            => toModel = lastCall.model)
    /\ [][(lastCall.op = "constructor" /\ lastCall.model \in Models /\ lastCall'.op = "add")
            => townEmitter'[Len(townEmitter')] = AreaChanged(lastCall.model)]_vars

\* C9: add and remove, the remove that empties the area and resets it too,
\* leave the leaderboard as it was.
C9_LeaderboardPreserved ==
    [][lastCall'.op \in {"add", "remove"} => leaderboard' = leaderboard]_vars

C9_Witness ==
    /\ lastCall.op = "remove"
    /\ Len(occupants) = 0
    /\ leaderboard = <<newLeaderboard>>
    /\ difficulty = 15

\* C10: a remove that leaves an occupant resets nothing: the six fields are
\* as before, the removed player is no occupant and the others still are.
C10_NoResetWhileOccupied ==
    [][(lastCall'.op = "remove" /\ Len(occupants') > 0)
        => /\ progress' = progress
           /\ ~InSeq(occupants', lastCall'.player)
           /\ \A q \in Players :
                (q # lastCall'.player /\ InSeq(occupants, q)) => InSeq(occupants', q)]_vars

C10_Witness ==
    /\ lastCall.op = "remove"
    /\ occupants = <<2>>
    /\ lastCall.player = 1
    /\ difficulty = 10
    /\ Len(userClicks) = 1

\* the interactableUpdate events among the events of a call
AreaUpdates(events) == SelectSeq(events, LAMBDA e : e.type = "interactableUpdate")

\* C11: every remove, resetting or not, ends with a broadcast of the area:
\* the last event of the call is an interactableUpdate, and the last
\* interactableUpdate of the call carries the model of the area as the call
\* leaves it.
C11_RemoveBroadcastsResult ==
    lastCall.op = "remove"
        => /\ Len(townEmitter) > 0
           /\ townEmitter[Len(townEmitter)].type = "interactableUpdate"
           /\ AreaUpdates(townEmitter)[Len(AreaUpdates(townEmitter))].model
                = [id |-> id, difficulty |-> difficulty, correct |-> correct,
                   userClicks |-> userClicks, leaderboard |-> leaderboard,
                   currentScore |-> currentScore, timer |-> timer]

C11_Witness ==
    /\ lastCall.op = "remove"
    /\ Len(occupants) = 0
    /\ Len(AreaUpdates(townEmitter)) > 0
    /\ AreaUpdates(townEmitter)[Len(AreaUpdates(townEmitter))].model.currentScore = NoScore
    /\ AreaUpdates(townEmitter)[Len(AreaUpdates(townEmitter))].model.leaderboard = <<newLeaderboard>>

\* C12: toModel() right after updateModel(m) is m with the id the area had
\* before the call in the place of m.id; so a broadcast of the area made
\* right after an update whose id is the area's carries exactly m.
C12_ToModelAfterUpdate ==
    [][lastCall'.op = "updateModel"
        => /\ toModel' = [lastCall'.model EXCEPT !.id = id]
           /\ lastCall'.model.id = id => AreaChanged(toModel') = AreaChanged(lastCall'.model)]_vars

C12_Witness ==
    /\ lastCall.op = "updateModel"
    /\ lastCall.model.id = id
    /\ toModel = lastCall.model
    /\ toModel.timer # ARROWLENGTH * toModel.difficulty

\* the set of the entries of a sequence
Range(s) == {s[i] : i \in 1..Len(s)}

C14_ConstructedDifficultyAndTimer ==
    lastCall.op = "constructor"
        => /\ ("difficulty" \in DOMAIN lastCall.model /\ lastCall.model.difficulty # 0)
                => difficulty = lastCall.model.difficulty
           /\ ("difficulty" \notin DOMAIN lastCall.model \/ lastCall.model.difficulty = 0)
                => difficulty = 15 /\ timer = 300
           /\ timer = 20 * difficulty

C14_Witness ==
    /\ lastCall.op = "constructor"
    /\ "difficulty" \in DOMAIN lastCall.model
    /\ lastCall.model.difficulty = 0
    /\ lastCall.model.timer = 200
    /\ difficulty = 15
    /\ timer = 300

\* a map object whose width or height is missing or falsy
Invalid(mapObject) ==
    \/ "width" \notin DOMAIN mapObject
    \/ "height" \notin DOMAIN mapObject
    \/ mapObject.width = 0
    \/ mapObject.height = 0

\* C15: fromMapObject fails with an error and produces no area when the width
\* or the height of the map object is missing or falsy, 0 included; it does
\* not fail when both are present and truthy.
C15_FromMapObjectValidates ==
    lastCall.op = "fromMapObject"
        => IF Invalid(lastCall.mapObject)
           THEN thrown # NoError /\ id = Undefined
           ELSE thrown = NoError /\ id # Undefined

C15_Witness ==
    /\ lastCall.op = "fromMapObject"
    /\ "width" \in DOMAIN lastCall.mapObject
    /\ lastCall.mapObject.width = 0
    /\ "height" \in DOMAIN lastCall.mapObject
    /\ lastCall.mapObject.height = 20
    /\ thrown = "missing width/height for map object"

\* C16, as claimed: the area fromMapObject makes of a valid map object has
\* the name as its id, the geometry as its bounding box, no occupants,
\* difficulty 15, and correct, userClicks and leaderboard empty and the
\* current score {userId: '', score: 0}.
C16_FromMapObjectDefaults ==
    (lastCall.op = "fromMapObject" /\ ~Invalid(lastCall.mapObject))
        => /\ id = lastCall.mapObject.name
           /\ boundingBox = [x |-> lastCall.mapObject.x, y |-> lastCall.mapObject.y,
                             width |-> lastCall.mapObject.width,
                             height |-> lastCall.mapObject.height]
           /\ occupants = <<>>
           /\ difficulty = 15
           /\ correct = <<>>
           /\ userClicks = <<>>
           /\ leaderboard = <<>>
           /\ currentScore = [userId |-> "", score |-> 0]

\* C18: updateModel sends no event through the town emitter, neither an
\* interactableUpdate nor a playerMoved, and leaves the occupants and their
\* locations as they were.
C18_UpdateModelIsSilent ==
    [][lastCall'.op = "updateModel"
        => /\ Len(townEmitter') = 0
           /\ occupants' = occupants
           /\ playerLocation' = playerLocation]_vars

C18_Witness ==
    /\ lastCall.op = "updateModel"
    /\ Len(townEmitter) = 0
    /\ Len(occupants) = 2
    /\ playerLocation[1] = id

\* C19: after add(player) the player is an occupant, the location of the
\* player names this area, and the call has sent an interactableUpdate that
\* carries the model of the area and a playerMoved that names this area.
C19_AddJoinsAndBroadcasts ==
    lastCall.op = "add"
        => /\ InSeq(occupants, lastCall.player)
           /\ playerLocation[lastCall.player] = id
           /\ \E i \in 1..Len(townEmitter) :
                /\ townEmitter[i].type = "interactableUpdate"
                /\ townEmitter[i].model
                     = [id |-> id, difficulty |-> difficulty, correct |-> correct,
                        userClicks |-> userClicks, leaderboard |-> leaderboard,
                        currentScore |-> currentScore, timer |-> timer]
           /\ \E i \in 1..Len(townEmitter) :
                /\ townEmitter[i].type = "playerMoved"
                /\ townEmitter[i].player = lastCall.player
                /\ townEmitter[i].interactableID = id

C19_Witness ==
    /\ lastCall.op = "add"
    /\ occupants = <<2, 1>>
    /\ lastCall.player = 1
    /\ playerLocation[1] = id
    /\ Len(userClicks) = 1
    /\ Len(townEmitter) = 2

\* C20: the timer is 20 times the difficulty after the creation of the area,
\* add and remove keep it so, only updateModel can break it, and a remove
\* that empties the area makes it so again.
C20_TimerFollowsDifficulty ==
    /\ created => timer = 20 * difficulty
    /\ [][/\ (lastCall'.op \in {"add", "remove"} /\ timer = 20 * difficulty)
                => timer' = 20 * difficulty'
          /\ (timer = 20 * difficulty /\ timer' # 20 * difficulty')
                => lastCall'.op = "updateModel"
          /\ (lastCall'.op = "remove" /\ Len(occupants') = 0)
                => timer' = 20 * difficulty']_vars

C20_Witness ==
    /\ lastCall.op = "add"
    /\ Len(correct) = 20
    /\ difficulty = 10
    /\ timer = 200

-----------------------------------------------------------------------------
(* Properties of the client controller, checked under ClientSpec *)

\* the event kind of each field's change notification
ChangeOf(field) == CASE field = "difficulty" -> "difficultyChange"
                     [] field = "timer" -> "timerChange"
                     [] field = "currentScore" -> "currentScoreChange"
                     [] field = "correct" -> "correctChange"
                     [] field = "userClicks" -> "userClicksChange"
                     [] field = "leaderboard" -> "leaderboardChange"

\* C5, as claimed: after updateFrom(m) the cached difficulty, timer and
\* currentScore are those of m.
C5_UpdateFromReconciles ==
    clientCall.op = "updateFrom"
        => /\ get_defficulty(model) = clientCall.model.difficulty
           /\ get_timer(model) = clientCall.model.timer
           /\ get_currentScore(model) = clientCall.model.currentScore

\* C6, as claimed: the setters of currentScore, correct, userClicks and
\* leaderboard store a value that differs from the cached one and emit one
\* change event of the field's kind carrying it; they emit nothing when
\* handed the cached value.
C6_SettersDetectChange ==
    [][(clientCall'.op = "set"
          /\ clientCall'.field \in {"currentScore", "correct", "userClicks", "leaderboard"})
        => IF clientCall'.value # model[clientCall'.field]
           THEN /\ model'[clientCall'.field] = clientCall'.value
                /\ emitted' = <<Event(ChangeOf(clientCall'.field), clientCall'.value)>>
           ELSE emitted' = <<>>]_vars

\* C7: the difficulty setter handed the cached value emits nothing and
\* changes nothing; handed another value it emits one difficultyChange
\* carrying it, and the getter then returns it.
C7_DifficultySetter ==
    [][(clientCall'.op = "set" /\ clientCall'.field = "difficulty")
        => IF clientCall'.value = get_defficulty(model)
           THEN emitted' = <<>> /\ model' = model
           ELSE /\ emitted' = <<Event("difficultyChange", clientCall'.value)>>
                /\ get_defficulty(model') = clientCall'.value
                /\ model' = [model EXCEPT !.difficulty = clientCall'.value]]_vars

C7_Witness ==
    /\ clientCall.op = "set"
    /\ clientCall.field = "difficulty"
    /\ emitted = <<Event("difficultyChange", 10)>>
    /\ defficulty = 10

\* C17: updateFrom(m) leaves the id, correct, userClicks and leaderboard of
\* the controller as they were and emits no correctChange, userClicksChange
\* or leaderboardChange, also when m differs from the cached model there.
C17_UpdateFromFrame ==
    [][clientCall'.op = "updateFrom"
        => /\ get_id(model') = get_id(model)
           /\ get_correct(model') = get_correct(model)
           /\ get_userClicks(model') = get_userClicks(model)
           /\ get_leaderboard(model') = get_leaderboard(model)
           /\ \A i \in 1..Len(emitted') :
                emitted'[i].type \notin {"correctChange", "userClicksChange",
                                         "leaderboardChange"}]_vars

C17_Witness ==
    /\ clientCall.op = "updateFrom"
    /\ clientCall.model.id # get_id(model)
    /\ clientCall.model.correct # get_correct(model)
    /\ clientCall.model.userClicks # get_userClicks(model)
    /\ clientCall.model.leaderboard # get_leaderboard(model)
    /\ Len(emitted) = 2

\* C21: updateFrom is idempotent: an updateFrom(m) that directly follows an
\* updateFrom(m) with the same m emits no event of any kind and leaves the
\* model of the controller exactly as the first call left it.
C21_UpdateFromIdempotent ==
    [][(/\ clientCall.op = "updateFrom"
        /\ clientCall'.op = "updateFrom"
        /\ clientCall'.model = clientCall.model)
        => /\ Len(emitted') = 0
           /\ model' = model]_vars

C21_Witness ==
    /\ clientCall.op = "updateFrom"
    /\ Len(emitted) = 0
    /\ get_defficulty(model) = clientCall.model.difficulty
    /\ get_timer(model) = clientCall.model.timer
    /\ get_currentScore(model) # clientCall.model.currentScore
    /\ get_correct(model) # clientCall.model.correct

====
